---- MODULE Spec2Model ----
(***************************************************************************)
(* Model of bot.py: the tick ingestor (collect_ticks), the indicator      *)
(* engine (digit_stats, calc_rsi, calc_macd), the four signal evaluators  *)
(* and the round-robin scheduler (main).                                   *)
(*                                                                         *)
(* Units.  A quote is written with two decimals; a price is held as an     *)
(* integer number of hundredths.  Percentages are exact fractions          *)
(* [num, den].  The RSI is held in hundredths (it is rounded to 2 places), *)
(* the MACD histogram in units of 1e-5 (it is rounded to 5 places).        *)
(* Wall-clock time is held in whole seconds; only asyncio.sleep advances   *)
(* it (simulated time).                                                    *)
(*                                                                         *)
(* Atomicity.  Both tasks run on one asyncio event loop, so a step of the  *)
(* model is the code a task runs from one await to the next.               *)
(***************************************************************************)
EXTENDS Integers, Sequences, FiniteSets, TLC

VARIABLES
    tick_data,      \* symbol -> deque of last digits            (line 78)
    price_history,  \* symbol -> deque of prices                 (line 79)
    bot_index,      \* index into BOT_SEQUENCE, 0-based          (line 75)
    sent_messages,  \* ids of delivered, not yet retracted msgs  (line 76)
    pc,             \* the await main() is suspended at
    ipc,            \* the await collect_ticks() is suspended at
    current_bot,    \* main's local current_bot
    next_bot,       \* main's local next_bot
    result,         \* main's local result: None or <<data, market>>
    now,            \* main's local now (seconds)
    nxt,            \* main's local nxt  ("%H:%M" text)
    exp,            \* main's local exp  ("%H:%M" text)
    signal_json,    \* the content of signals.json
    clock,          \* the wall clock, seconds
    msg_seq,        \* the message id Telegram hands out next
    feed,           \* which quote stream the server plays
    feed_len,       \* how many ticks the stream holds
    fed,            \* ticks of the stream delivered so far
    heard,          \* messages without a tick delivered so far
    seen,           \* history: symbol -> every <<digit, price>> appended
    cycle,          \* history: cycles begun so far
    cycle_start,    \* history: the clock when the current cycle began
    bots,           \* history: the evaluator of every cycle begun
    calls,          \* history: Notifier calls made in the current cycle
    pub,            \* history: records published in the current cycle
    evals,          \* history: evaluator runs in the current cycle
    del_failed,     \* history: delete_message calls that raised in the
                    \*          cleanup under way
    given_prices,   \* a price list handed to the indicator engine
    given_ticks,    \* the digit list of those prices
    returned        \* what the indicator engine returned for them

vars == <<tick_data, price_history, bot_index, sent_messages, pc, ipc,
          current_bot, next_bot, result, now, nxt, exp, signal_json, clock,
          msg_seq, feed, feed_len, fed, heard, seen, cycle, cycle_start,
          bots, calls, pub, evals, del_failed, given_prices, given_ticks,
          returned>>

ingest_vars == <<tick_data, price_history, ipc, fed, heard, seen>>
sched_vars == <<bot_index, sent_messages, pc, current_bot, next_bot, result,
                now, nxt, exp, signal_json, clock, msg_seq, cycle,
                cycle_start, bots, calls, pub, evals, del_failed>>
env_vars == <<feed, feed_len, given_prices, given_ticks, returned>>
program_vars == <<ingest_vars, sched_vars, feed, feed_len>>

----------------------------------------------------------------------------
(* Bounds of the model. *)

\* ticks the stream holds in the scheduler specification
MaxTicks == 244
\* ticks the stream holds in the ingestor-only specification
MaxFeed == 488
\* cycles the scheduler may begin
MaxCycles == 5

\* the quote streams the server may play
Feeds == {1, 2}
\* the wall-clock times (seconds after midnight) the process may start at
StartTimes == {43215, 85830}

----------------------------------------------------------------------------
(* Program constants. *)

MARKETS == << <<"R_10", "Volatility 10 Index">>,
              <<"1HZ10V", "Volatility 10 (1s) Index">>,
              <<"R_25", "Volatility 25 Index">>,
              <<"1HZ25V", "Volatility 25 (1s) Index">> >>

BOT_SEQUENCE == <<"V1", "V2", "V4", "V5">>

\* deque(maxlen=120)
MAXLEN == 120

Symbols == {MARKETS[i][1] : i \in 1..Len(MARKETS)}

\* Python's None (an empty tuple, so that it compares with any value)
None == <<>>

----------------------------------------------------------------------------
(* Quotes: text, float() and str(). *)

\* The text of the quote worth h hundredths, written with two decimals.
QuoteText(h) ==
    [whole |-> h \div 100, frac |-> <<(h \div 10) % 10, h % 10>>, nan |-> FALSE]

\* A quote text float() accepts but that holds no digits: "nan".
NanText == [whole |-> 0, frac |-> <<>>, nan |-> TRUE]

\* float(text): the price in hundredths.
to_float(q) == q.whole * 100 + q.frac[1] * 10 + q.frac[2]

\* str(price): Python prints the shortest decimal that reads back as the
\* same float, so the trailing zeros of the fraction are gone and an
\* integral price is printed with the fraction "0".
float_str(p) ==
    [whole |-> p \div 100,
     frac  |-> IF p % 100 = 0 THEN <<0>>
               ELSE IF p % 10 = 0 THEN <<(p \div 10) % 10>>
               ELSE <<(p \div 10) % 10, p % 10>>]

\* last_digit(price) = int(str(price).split('.')[-1][-1])
last_digit(p) == LET f == float_str(p).frac IN f[Len(f)]

----------------------------------------------------------------------------
(* The deques. *)

\* deque_append, were a full deque to drop its newest entry
deque_append_drops_newest(buf, x) ==
    IF Len(buf) >= MAXLEN
    THEN Append(SubSeq(buf, 1, Len(buf) - 1), x)
    ELSE Append(buf, x)

\* deque(maxlen=MAXLEN).append(x): a full deque drops its oldest entry.
deque_append(buf, x) ==
    IF Len(buf) >= MAXLEN THEN Append(Tail(buf), x) ELSE Append(buf, x)

----------------------------------------------------------------------------
(* The stream the server plays: ticks of the four symbols in turn. *)

Pick(pattern, k) == pattern[((k - 1) % Len(pattern)) + 1]

\* The k-th quote (hundredths) of market i in stream f.
FeedQuote(f, i, k) ==
    IF f = 1 THEN
        CASE i = 1 -> 5007
          [] i = 2 -> Pick(<<3006, 3016, 3026, 3008, 3009>>, k)
          [] i = 3 -> Pick(<<2005, 2014, 2023, 2032, 2041, 2050>>, k)
          [] OTHER -> Pick(<<1002, 1004, 1012, 1100, 1024>>, k)
    ELSE
        CASE i = 1 -> Pick(<<4001, 4003, 4005, 4011, 4013, 4020>>, k)
          [] i = 2 -> Pick(<<3107, 3109, 3097, 3099>>, k)
          [] i = 3 -> 2600 - k
          [] OTHER -> 1000 + 2 * k

\* The n-th message of stream f (n = 1, 2, ...).
FeedMessage(f, n) ==
    LET i == ((n - 1) % Len(MARKETS)) + 1
        k == ((n - 1) \div Len(MARKETS)) + 1
    IN [tick |-> TRUE, symbol |-> MARKETS[i][1],
        quote |-> QuoteText(FeedQuote(f, i, k))]

\* Between its ticks the stream carries a message without a tick field
\* after every OtherEvery ticks.
OtherEvery == 50

\* Messages the stream may also carry: no tick field, a symbol that was
\* not subscribed, a quote without digits.
OtherMessage == [tick |-> FALSE, symbol |-> "", quote |-> NanText]
BadTicks == {[tick |-> TRUE, symbol |-> "R_50", quote |-> QuoteText(7777)],
             [tick |-> TRUE, symbol |-> "R_10", quote |-> NanText]}

----------------------------------------------------------------------------
(* collect_ticks *)

\* The body of "async for msg in ws" raises on this message:
\* tick_data[s] is a KeyError, last_digit("nan") a ValueError.
Raises(msg) == msg.tick /\ (msg.symbol \notin Symbols \/ msg.quote.nan)

\* OnMessage, were d["tick"] read without the test of line 195: a message
\* without a tick field raises KeyError
OnMessage_no_tick_test(msg) ==
    IF ~msg.tick \/ Raises(msg)
    THEN /\ ipc' = "backoff"
         /\ UNCHANGED <<tick_data, price_history, seen>>
    ELSE LET p == to_float(msg.quote)
             s == msg.symbol
             d == last_digit(p)
         IN /\ tick_data' = [tick_data EXCEPT ![s] = deque_append(@, d)]
            /\ price_history' = [price_history EXCEPT ![s] = deque_append(@, p)]
            /\ seen' = [seen EXCEPT ![s] = Append(@, <<d, p>>)]
            /\ ipc' = "recv"

\* OnMessage, were the price appended before its digit is extracted: a
\* quote that float() reads as nan (held as -1) reaches the price deque
OnMessage_price_first(msg) ==
    IF ~msg.tick
    THEN /\ ipc' = "recv"
         /\ UNCHANGED <<tick_data, price_history, seen>>
    ELSE IF msg.symbol \notin Symbols
    THEN /\ ipc' = "backoff"
         /\ UNCHANGED <<tick_data, price_history, seen>>
    ELSE IF msg.quote.nan
    THEN /\ price_history' =
              [price_history EXCEPT ![msg.symbol] = deque_append(@, -1)]
         /\ ipc' = "backoff"
         /\ UNCHANGED <<tick_data, seen>>
    ELSE LET p == to_float(msg.quote)
             s == msg.symbol
             d == last_digit(p)
         IN /\ tick_data' = [tick_data EXCEPT ![s] = deque_append(@, d)]
            /\ price_history' = [price_history EXCEPT ![s] = deque_append(@, p)]
            /\ seen' = [seen EXCEPT ![s] = Append(@, <<d, p>>)]
            /\ ipc' = "recv"

\* Lines 194-199 on one message, then the next await: the loop goes on,
\* or the exception leaves it for the handler of line 200.
OnMessage(msg) ==
    IF ~msg.tick
    THEN /\ ipc' = "recv"
         /\ UNCHANGED <<tick_data, price_history, seen>>
    ELSE IF Raises(msg)
    THEN /\ ipc' = "backoff"
         /\ UNCHANGED <<tick_data, price_history, seen>>
    ELSE LET p == to_float(msg.quote)
             s == msg.symbol
             d == last_digit(p)
         IN /\ tick_data' = [tick_data EXCEPT ![s] = deque_append(@, d)]
            /\ price_history' = [price_history EXCEPT ![s] = deque_append(@, p)]
            /\ seen' = [seen EXCEPT ![s] = Append(@, <<d, p>>)]
            /\ ipc' = "recv"

\* websockets.connect and the four subscriptions (lines 190-192).
Connect ==
    /\ pc # "aborted"
    /\ ipc = "connect"
    /\ \E ok \in BOOLEAN : ipc' = IF ok THEN "recv" ELSE "backoff"
    /\ UNCHANGED <<tick_data, price_history, fed, heard, seen>>
    /\ UNCHANGED <<sched_vars, env_vars>>

\* The next tick of the stream arrives.
Tick ==
    /\ pc # "aborted"
    /\ ipc = "recv"
    /\ fed < feed_len
    /\ heard = fed \div OtherEvery
    /\ fed' = fed + 1
    /\ OnMessage(FeedMessage(feed, fed + 1))
    /\ UNCHANGED <<heard, sched_vars, env_vars>>

\* A message without a tick field arrives.
Ignored ==
    /\ pc # "aborted"
    /\ ipc = "recv"
    /\ heard < fed \div OtherEvery
    /\ heard' = heard + 1
    /\ OnMessage(OtherMessage)
    /\ UNCHANGED <<fed, sched_vars, env_vars>>

\* A tick the loop body raises on arrives.
BadTick ==
    /\ pc # "aborted"
    /\ ipc = "recv"
    /\ \E msg \in BadTicks : OnMessage(msg)
    /\ UNCHANGED <<fed, heard, sched_vars, env_vars>>

\* The connection breaks: the "async for" raises.
Disconnect ==
    /\ pc # "aborted"
    /\ ipc = "recv"
    /\ ipc' = "backoff"
    /\ UNCHANGED <<tick_data, price_history, fed, heard, seen>>
    /\ UNCHANGED <<sched_vars, env_vars>>

\* except: await asyncio.sleep(5), then the while loop connects again.
Backoff ==
    /\ pc # "aborted"
    /\ ipc = "backoff"
    /\ ipc' = "connect"
    /\ UNCHANGED <<tick_data, price_history, fed, heard, seen>>
    /\ UNCHANGED <<sched_vars, env_vars>>

Ingest == Connect \/ Tick \/ Ignored \/ BadTick \/ Disconnect \/ Backoff

----------------------------------------------------------------------------
(* Indicator engine. *)

\* digit_stats needs this many digits (line 87)
MIN_TICKS == 60
\* calc_rsi's period (line 99)
PERIOD == 14
\* calc_macd needs this many prices (line 113)
MIN_MACD == 35
\* the evaluators' threshold on a share and on the RSI (lines 128, 137, 148, 158)
THRESHOLD == 60

\* Python's seq[-n:]
LastN(seq, n) ==
    IF Len(seq) <= n THEN seq ELSE SubSeq(seq, Len(seq) - n + 1, Len(seq))

\* a / b rounded to the nearest integer, halves to the even one (round()),
\* for a >= 0 and b > 0
RoundDiv(a, b) ==
    LET q == a \div b
        r == a % b
    IN IF 2 * r < b THEN q
       ELSE IF 2 * r > b THEN q + 1
       ELSE IF q % 2 = 0 THEN q ELSE q + 1

\* ticks.count(d)
Count(ticks, d) == Cardinality({i \in 1..Len(ticks) : ticks[i] = d})

\* counts = [ticks.count(i) for i in range(10)]   (line 89)
Counts(ticks) == [d \in 0..9 |-> Count(ticks, d)]

RECURSIVE SumCounts(_, _)
\* sum(counts[d] for d in ds)
SumCounts(counts, ds) ==
    IF ds = {} THEN 0
    ELSE LET d == CHOOSE x \in ds : TRUE
         IN counts[d] + SumCounts(counts, ds \ {d})

\* c / total * 100, kept exact
Pct(c, total) == [num |-> c * 100, den |-> total]

\* share >= bound
PctGE(share, bound) == share.num >= bound * share.den

\* Freq, were reverse=True to reverse the digits of equal count as well
Freq_ties_descending(counts) ==
    LET before(e, d) == \/ counts[e] > counts[d]
                        \/ counts[e] = counts[d] /\ e > d
        pos(d) == 1 + Cardinality({e \in 0..9 : before(e, d)})
    IN [i \in 1..10 |-> CHOOSE d \in 0..9 : pos(d) = i]

\* sorted(range(10), key=lambda x: counts[x], reverse=True): the sort is
\* stable, so digits of equal count stay in ascending order.
Freq(counts) ==
    LET before(e, d) == \/ counts[e] > counts[d]
                        \/ counts[e] = counts[d] /\ e < d
        pos(d) == 1 + Cardinality({e \in 0..9 : before(e, d)})
    IN [i \in 1..10 |-> CHOOSE d \in 0..9 : pos(d) = i]

\* stats_dict, were the shares taken against the capacity of the deque
stats_dict_of_capacity(counts, total) ==
    [freq   |-> Freq(counts),
     under6 |-> Pct(SumCounts(counts, 0..5), MAXLEN),
     under7 |-> Pct(SumCounts(counts, 0..6), MAXLEN),
     even   |-> Pct(SumCounts(counts, {0, 2, 4, 6, 8}), MAXLEN),
     odd    |-> Pct(SumCounts(counts, {1, 3, 5, 7, 9}), MAXLEN)]

\* the dict of lines 91-97
stats_dict(counts, total) ==
    [freq   |-> Freq(counts),
     under6 |-> Pct(SumCounts(counts, 0..5), total),
     under7 |-> Pct(SumCounts(counts, 0..6), total),
     even   |-> Pct(SumCounts(counts, {0, 2, 4, 6, 8}), total),
     odd    |-> Pct(SumCounts(counts, {1, 3, 5, 7, 9}), total)]

\* digit_stats_of, were it to ask for 6 digits
digit_stats_of_6(ticks) ==
    IF Len(ticks) < 6 THEN None
    ELSE CHOOSE s \in {stats_dict(c, Len(ticks)) : c \in {Counts(ticks)}} : TRUE

\* digit_stats on the content of a digit deque
digit_stats_of(ticks) ==
    IF Len(ticks) < MIN_TICKS THEN None
    ELSE \* the counts are computed once
         CHOOSE s \in {stats_dict(c, Len(ticks)) : c \in {Counts(ticks)}} : TRUE

digit_stats(symbol) == digit_stats_of(tick_data[symbol])

RECURSIVE SumGains(_, _)
\* the sum over i = 1..k of max(prices[-i] - prices[-i-1], 0)
SumGains(prices, k) ==
    IF k = 0 THEN 0
    ELSE LET n == Len(prices)
             diff == prices[n - k + 1] - prices[n - k]
         IN (IF diff > 0 THEN diff ELSE 0) + SumGains(prices, k - 1)

RECURSIVE SumLosses(_, _)
\* the sum over i = 1..k of abs(min(prices[-i] - prices[-i-1], 0))
SumLosses(prices, k) ==
    IF k = 0 THEN 0
    ELSE LET n == Len(prices)
             diff == prices[n - k + 1] - prices[n - k]
         IN (IF diff < 0 THEN -diff ELSE 0) + SumLosses(prices, k - 1)

\* calc_rsi, were the ratio rs returned as a percentage
calc_rsi_ratio(prices) ==
    IF Len(prices) < PERIOD + 1 THEN None
    ELSE LET G == SumGains(prices, PERIOD)
             L == SumLosses(prices, PERIOD)
             rs_num == IF L = 0 THEN 50 * G ELSE G
             rs_den == IF L = 0 THEN 7 ELSE L
         IN [val |-> RoundDiv(10000 * rs_num, rs_den)]

\* calc_rsi, were 0.001 substituted for an average loss of zero
calc_rsi_eps_001(prices) ==
    IF Len(prices) < PERIOD + 1 THEN None
    ELSE LET G == SumGains(prices, PERIOD)
             L == SumLosses(prices, PERIOD)
             rs_num == IF L = 0 THEN 5 * G ELSE G
             rs_den == IF L = 0 THEN 7 ELSE L
         IN [val |-> RoundDiv(10000 * rs_num, rs_num + rs_den)]

\* calc_rsi, in hundredths: None, or [val |-> round(100 - 100 / (1 + rs), 2)].
\* With G and L the sums of gains and losses in hundredths of a price,
\* avg_gain = G / 1400 and avg_loss = L / 1400, or 0.0001 when L = 0; so
\* rs = G / L, or G / 0.14 = 50 G / 7, and 100 - 100 / (1 + rs) is
\* 100 rs_num / (rs_num + rs_den).
calc_rsi(prices) ==
    IF Len(prices) < PERIOD + 1 THEN None
    ELSE \* the two sums are taken once
         CHOOSE r \in
             {LET rs_num == IF L = 0 THEN 50 * G ELSE G
                  rs_den == IF L = 0 THEN 7 ELSE L
              IN [val |-> RoundDiv(10000 * rs_num, rs_num + rs_den)] :
              G \in {SumGains(prices, PERIOD)},
              L \in {SumLosses(prices, PERIOD)}} : TRUE

RECURSIVE ema_from(_, _, _, _)
\* the loop of ema: e = v * k + e * (1 - k) with k = 2 / (p + 1), from
\* data[i] on.  e is held in units of 1e-5 (1000 per hundredth), each step
\* rounded to the unit.
ema_from(data, p, i, e) ==
    IF i > Len(data) THEN e
    ELSE \* e is evaluated once, as the loop does
         CHOOSE r \in {ema_from(data, p, i + 1,
                                RoundDiv(2 * 1000 * data[i] + (p - 1) * v,
                                         p + 1)) : v \in {e}} : TRUE

\* ema(data, p), seeded with data[0]
ema(data, p) == ema_from(data, p, 2, 1000 * data[1])

\* calc_macd, were the MACD line returned without the signal line taken off
calc_macd_line_only(prices) ==
    IF Len(prices) < MIN_MACD THEN None
    ELSE [val |-> ema(LastN(prices, 26), 12) - ema(LastN(prices, 26), 26)]

\* calc_macd, in units of 1e-5: None, or [val |-> round(macd - signal, 5)]
calc_macd(prices) ==
    IF Len(prices) < MIN_MACD THEN None
    ELSE LET macd == ema(LastN(prices, 26), 12) - ema(LastN(prices, 26), 26)
             signal == ema(LastN(prices, 9), 9)
         IN [val |-> macd - signal]

----------------------------------------------------------------------------
(* Signal logic. *)

v1_of(s, name) ==
    IF s # None /\ PctGE(s.under6, THRESHOLD)
    THEN <<[trade |-> "UNDER 6", entry |-> s.freq[1], prob |-> s.under6], name>>
    ELSE None

\* digit_stats(sym) is called once
signal_v1(sym, name) ==
    CHOOSE r \in {v1_of(s, name) : s \in {digit_stats(sym)}} : TRUE

v2_of(s, name) ==
    IF s # None /\ PctGE(s.under7, THRESHOLD)
    THEN <<[trade |-> "UNDER 7", entry |-> s.freq[1], prob |-> s.under7], name>>
    ELSE None

\* digit_stats(sym) is called once
signal_v2(sym, name) ==
    CHOOSE r \in {v2_of(s, name) : s \in {digit_stats(sym)}} : TRUE

\* signal_v4 on the content of a price deque: "rsi and macd" is false for
\* None and for 0; round(rsi, 1) is in tenths
v4_of(list, name) ==
    CHOOSE r \in
        {IF /\ rsi # None /\ macd # None
            /\ rsi.val # 0 /\ macd.val # 0
            /\ rsi.val > THRESHOLD * 100 /\ macd.val > 0
         THEN <<[trade |-> "RISE", rsi |-> rsi.val, macd |-> macd.val,
                 momentum |-> RoundDiv(rsi.val, 10)], name>>
         ELSE None : rsi \in {calc_rsi(list)}, macd \in {calc_macd(list)}} :
        TRUE

signal_v4(sym, name) == v4_of(price_history[sym], name)

v5_of(s, name) ==
    IF s # None /\ PctGE(s.even, THRESHOLD)
    THEN <<[trade |-> "EVEN", prob |-> s.even], name>>
    ELSE None

\* digit_stats(sym) is called once
signal_v5(sym, name) ==
    CHOOSE r \in {v5_of(s, name) : s \in {digit_stats(sym)}} : TRUE

\* fn = {"V1": signal_v1, ...}[current_bot]; fn(s, n)
fn(bot, sym, name) ==
    CASE bot = "V1" -> signal_v1(sym, name)
      [] bot = "V2" -> signal_v2(sym, name)
      [] bot = "V4" -> signal_v4(sym, name)
      [] OTHER      -> signal_v5(sym, name)

RECURSIVE last_signal(_, _)
\* first_signal, were the last instrument that fires to win
last_signal(bot, i) ==
    IF i > Len(MARKETS) THEN None
    ELSE LET later == last_signal(bot, i + 1)
         IN IF later # None THEN later
            ELSE fn(bot, MARKETS[i][1], MARKETS[i][2])

RECURSIVE first_signal(_, _)
\* next((fn(s, n) for s, n in MARKETS if fn(s, n)), None), from market i on
first_signal(bot, i) ==
    IF i > Len(MARKETS) THEN None
    ELSE \* fn is called once for each instrument
         CHOOSE x \in {IF r # None THEN r ELSE first_signal(bot, i + 1) :
                          r \in {fn(bot, MARKETS[i][1], MARKETS[i][2])}} : TRUE

\* line 220
evaluate(bot) == first_signal(bot, 1)

----------------------------------------------------------------------------
(* State publisher and notifier. *)

\* strftime("%H:%M") of a time in seconds: <<hour, minute>>
hm(t) == <<(t \div 3600) % 24, (t \div 60) % 60>>

\* k.get(key, default)
Get(k, key, default) == IF key \in DOMAIN k THEN k[key] ELSE default

\* the data update_signal_json(**k) writes at time t (lines 45-59)
signal_data(t, k) ==
    [updated_at  |-> t,
     bot_running |-> TRUE,
     current     |-> [bot_name    |-> Get(k, "current_bot", "-"),
                      market      |-> Get(k, "market", "-"),
                      signal_type |-> Get(k, "signal_type", "-"),
                      status      |-> Get(k, "status", "IDLE"),
                      expires_at  |-> Get(k, "expires_at", "-")],
     next        |-> [bot_name |-> Get(k, "next_bot", "-"),
                      time     |-> Get(k, "next_time", "-")]]

\* How update_signal_json may end: the file is written and pushed, the file
\* is written and the push fails (caught and logged, line 41), or open() or
\* json.dump raises.
PublishOutcomes == {"ok", "git_failed", "raise"}

\* send(bot, text): bot.send_message; shown is the "next" time the text
\* names, None when it names none
send_call(shown) == [fn |-> "send", via |-> "send_message", next_time |-> shown]

\* send_with_image(bot, bot_type, caption): bot.send_photo when the image
\* file exists, else send(bot, caption); the caption names no "next" time
send_with_image_call(img) ==
    [fn |-> "send_with_image",
     via |-> IF img THEN "send_photo" ELSE "send_message", next_time |-> None]

----------------------------------------------------------------------------
(* main *)

\* next_bot_of, were line 213 to run after the index was advanced
next_bot_of_advanced(i) == BOT_SEQUENCE[((i + 2) % Len(BOT_SEQUENCE)) + 1]

\* line 213
next_bot_of(i) == BOT_SEQUENCE[((i + 1) % Len(BOT_SEQUENCE)) + 1]

\* advance, were the index not to wrap
advance_no_wrap(i) == IF i + 1 < Len(BOT_SEQUENCE) THEN i + 1 ELSE i

\* line 214
advance(i) == (i + 1) % Len(BOT_SEQUENCE)

\* next_time_of, were it to add the 5 minutes of the expiry
next_time_of_5min(t) == hm(t + 300)

\* nxt = (now + timedelta(minutes=10)).strftime("%H:%M")   (line 223)
next_time_of(t) == hm(t + 600)

\* exp = (now + timedelta(minutes=5)).strftime("%H:%M")    (line 232)
expiry_of(t) == hm(t + 300)

\* the keyword arguments of line 226
no_signal_kwargs(n10) ==
    [current_bot |-> current_bot, status |-> "NO_SIGNAL",
     next_bot |-> next_bot, next_time |-> n10]

\* the keyword arguments of line 253
active_kwargs(res, e5, n10) ==
    [current_bot |-> current_bot, market |-> res[2],
     signal_type |-> res[1].trade, status |-> "ACTIVE", expires_at |-> e5,
     next_bot |-> next_bot, next_time |-> n10]

\* expired_kwargs, were the expiry taken anew from the time of the call
expired_kwargs_new_expiry(t) ==
    [current_bot |-> current_bot, market |-> result[2],
     signal_type |-> result[1].trade, status |-> "EXPIRED",
     expires_at |-> hm(t + 300), next_bot |-> next_bot, next_time |-> nxt]

\* the keyword arguments of line 258, at time t
expired_kwargs(t) ==
    [current_bot |-> current_bot, market |-> result[2],
     signal_type |-> result[1].trade, status |-> "EXPIRED", expires_at |-> exp,
     next_bot |-> next_bot, next_time |-> nxt]

\* notify_no_signal, were it sent with the evaluator's image
notify_no_signal_with_image(n10) == send_with_image_call(TRUE)

\* the notification of line 227
notify_no_signal(n10) == send_call(n10)

\* update_signal_json(**k) at time t, then the Notifier call that follows
\* it, up to that call's await.
Publish(t, k, call, at) ==
    \E out \in PublishOutcomes :
        IF out = "raise"
        THEN /\ pc' = "aborted"
             /\ UNCHANGED <<signal_json, pub, calls>>
        ELSE /\ signal_json' = signal_data(t, k)
             /\ pub' = Append(pub, signal_data(t, k))
             /\ calls' = Append(calls, call)
             /\ pc' = at

\* bot.send_message or bot.send_photo returns a message, or raises; nothing
\* in main catches what it raises.
SendDone(at) ==
    /\ \E ok \in BOOLEAN :
        IF ok
        THEN /\ sent_messages' = Append(sent_messages, msg_seq)
             /\ msg_seq' = msg_seq + 1
             /\ pc' = at
        ELSE /\ pc' = "aborted"
             /\ UNCHANGED <<sent_messages, msg_seq>>
    /\ del_failed' = 0
    /\ UNCHANGED <<bot_index, current_bot, next_bot, result, now, nxt, exp,
                   signal_json, clock, cycle, cycle_start, bots, calls, pub,
                   evals>>
    /\ UNCHANGED <<ingest_vars, env_vars>>

\* Lines 212-216: select the evaluator and call send for the pre-alert.
BeginCycle ==
    /\ cycle < MaxCycles
    /\ current_bot' = BOT_SEQUENCE[bot_index + 1]
    /\ next_bot' = next_bot_of(bot_index)
    /\ bot_index' = advance(bot_index)
    /\ pc' = "send_prealert"
    /\ cycle' = cycle + 1
    /\ cycle_start' = clock'
    /\ bots' = Append(bots, BOT_SEQUENCE[bot_index + 1])
    /\ calls' = <<send_call(None)>>
    /\ pub' = <<>>
    /\ evals' = 0
    /\ UNCHANGED sent_messages

\* One turn of cleanup's loop (lines 166-168) up to its await: pop an id and
\* call delete_message.
PopAndDelete ==
    /\ sent_messages' = SubSeq(sent_messages, 1, Len(sent_messages) - 1)
    /\ pc' = "delete_message"
    /\ UNCHANGED <<bot_index, current_bot, next_bot, cycle, cycle_start, bots,
                   calls, pub, evals>>

\* The top of main's loop (line 209) up to the next await.
LoopTop == IF sent_messages # <<>> THEN PopAndDelete ELSE BeginCycle

\* after_delete, were the try around the loop: an exception ends cleanup
after_delete_try_outside(ok) == IF ok THEN LoopTop ELSE BeginCycle

\* cleanup after delete_message returned (ok) or raised: "except: pass"
\* swallows the exception inside the loop, which goes on.
after_delete(ok) == LoopTop

\* main() starts: Bot(), create_task(collect_ticks()), the first turn.
Start ==
    /\ pc = "start"
    /\ clock' = clock
    /\ LoopTop
    /\ UNCHANGED <<result, now, nxt, exp, signal_json, msg_seq, del_failed>>
    /\ UNCHANGED <<ingest_vars, env_vars>>

DeleteDone ==
    /\ pc = "delete_message"
    /\ clock' = clock
    /\ \E ok \in BOOLEAN :
        /\ after_delete(ok)
        /\ del_failed' = IF ok THEN del_failed ELSE del_failed + 1
    /\ UNCHANGED <<result, now, nxt, exp, signal_json, msg_seq>>
    /\ UNCHANGED <<ingest_vars, env_vars>>

PreAlertSent == pc = "send_prealert" /\ SendDone("sleep_120")

\* asyncio.sleep(120) is over: lines 219-227 (no signal) or 219-254.
Evaluate ==
    /\ pc = "sleep_120"
    /\ clock' = clock + 120
    /\ \E res \in {evaluate(current_bot)} :
       LET t == clock + 120
           n10 == next_time_of(t)
           e5 == expiry_of(t)
       IN /\ now' = t
          /\ result' = res
          /\ nxt' = n10
          /\ evals' = evals + 1
          /\ IF res = None
             THEN /\ exp' = exp
                  /\ Publish(t, no_signal_kwargs(n10), notify_no_signal(n10),
                             "send_nosignal")
             ELSE /\ exp' = e5
                  /\ \E img \in BOOLEAN :
                        Publish(t, active_kwargs(res, e5, n10),
                                send_with_image_call(img), "send_signal")
    /\ UNCHANGED <<bot_index, sent_messages, current_bot, next_bot, msg_seq,
                   cycle, cycle_start, bots, del_failed>>
    /\ UNCHANGED <<ingest_vars, env_vars>>

NoSignalSent == pc = "send_nosignal" /\ SendDone("sleep_600")

\* AfterNoSignal, were line 229 to leave the loop
AfterNoSignal_leaves ==
    /\ pc = "sleep_600"
    /\ clock' = clock + 600
    /\ pc' = "left"
    /\ UNCHANGED <<bot_index, sent_messages, current_bot, next_bot, result,
                   now, nxt, exp, signal_json, msg_seq, cycle, cycle_start,
                   bots, calls, pub, evals, del_failed>>
    /\ UNCHANGED <<ingest_vars, env_vars>>

\* asyncio.sleep(600) is over: continue (line 229).
AfterNoSignal ==
    /\ pc = "sleep_600"
    /\ clock' = clock + 600
    /\ LoopTop
    /\ UNCHANGED <<result, now, nxt, exp, signal_json, msg_seq, del_failed>>
    /\ UNCHANGED <<ingest_vars, env_vars>>

SignalSent == pc = "send_signal" /\ SendDone("sleep_300a")

\* asyncio.sleep(300) of line 256 is over: lines 258-259.
Expire ==
    /\ pc = "sleep_300a"
    /\ clock' = clock + 300
    /\ Publish(clock + 300, expired_kwargs(clock + 300), send_call(nxt),
               "send_expired")
    /\ UNCHANGED <<bot_index, sent_messages, current_bot, next_bot, result,
                   now, nxt, exp, msg_seq, cycle, cycle_start, bots, evals,
                   del_failed>>
    /\ UNCHANGED <<ingest_vars, env_vars>>

ExpiredSent == pc = "send_expired" /\ SendDone("sleep_300b")

\* AfterExpired, were the wait of line 260 the 600 seconds of line 228
AfterExpired_600 ==
    /\ pc = "sleep_300b"
    /\ clock' = clock + 600
    /\ LoopTop
    /\ UNCHANGED <<result, now, nxt, exp, signal_json, msg_seq, del_failed>>
    /\ UNCHANGED <<ingest_vars, env_vars>>

\* asyncio.sleep(300) of line 260 is over: the loop starts over.
AfterExpired ==
    /\ pc = "sleep_300b"
    /\ clock' = clock + 300
    /\ LoopTop
    /\ UNCHANGED <<result, now, nxt, exp, signal_json, msg_seq, del_failed>>
    /\ UNCHANGED <<ingest_vars, env_vars>>

Schedule ==
    \/ Start \/ DeleteDone \/ PreAlertSent \/ Evaluate \/ NoSignalSent
    \/ AfterNoSignal \/ SignalSent \/ Expire \/ ExpiredSent \/ AfterExpired

----------------------------------------------------------------------------
(* Initial states. *)

ProgramInit(len) ==
    /\ tick_data = [s \in Symbols |-> <<>>]
    /\ price_history = [s \in Symbols |-> <<>>]
    /\ bot_index = 0
    /\ sent_messages = <<>>
    /\ pc = "start"
    /\ ipc = "connect"
    /\ current_bot = None
    /\ next_bot = None
    /\ result = None
    /\ now = 0
    /\ nxt = None
    /\ exp = None
    /\ signal_json = None
    /\ clock \in StartTimes
    /\ msg_seq = 1
    /\ feed \in Feeds
    /\ feed_len = len
    /\ fed = 0
    /\ heard = 0
    /\ seen = [s \in Symbols |-> <<>>]
    /\ cycle = 0
    /\ cycle_start = 0
    /\ bots = <<>>
    /\ calls = <<>>
    /\ pub = <<>>
    /\ evals = 0
    /\ del_failed = 0

\* The program starts; nothing is handed to the indicator engine apart from
\* the buffers.
InitWith(len) ==
    /\ ProgramInit(len)
    /\ given_prices = <<>>
    /\ given_ticks = <<>>
    /\ returned = <<>>

Init == InitWith(MaxTicks)

Next == Schedule \/ Ingest

\* The program: the scheduler and the ingestor on one event loop.
Spec == Init /\ [][Next]_vars

\* A step of main in which the Notifier and State Publisher calls return
\* normally.
NormalSchedule == Schedule /\ pc' # "aborted"

\* The program with those calls returning normally and the event loop
\* resuming main whenever the await it is suspended at is over; nothing is
\* assumed of the stream or of the ingestor.  Every step of main changes
\* its position or the list of sent messages.
SpecFair ==
    /\ Init
    /\ [][NormalSchedule \/ Ingest]_vars
    /\ WF_<<pc, sent_messages>>(NormalSchedule)

InitIngest == InitWith(MaxFeed)

\* The ingestor alone: the scheduler is not scheduled.
SpecIngest == InitIngest /\ [][Ingest]_vars

----------------------------------------------------------------------------
(* The indicator engine and the evaluators on given buffers. *)

\* A price in hundredths whose last digit, as last_digit reads it, is d.
PriceWithDigit(d) == IF d = 0 THEN 30000 ELSE 30010 + d

\* Digit patterns a buffer may repeat.
DigitCycles ==
    {<<0, 1, 2, 3, 4, 5>>, <<1, 7, 2, 8, 3>>, <<6, 6, 6, 9, 9>>,
     <<3, 1, 3, 1, 8>>, <<9, 9, 0, 0, 5>>, <<8, 6, 7, 8, 6>>}
        \cup {<<a, b, c>> : a \in {0, 5, 6, 9}, b \in {0, 5, 6}, c \in {5, 9}}

\* Price movements a buffer may repeat, in hundredths per tick.
PriceMoves ==
    {<<0>>, <<1>>, <<2>>, <<199>>, <<200>>, <<201>>, <<300>>, <<-1>>,
     <<-200>>, <<1, 5, 400>>, <<400, 1, 1>>, <<0, 1>>, <<3, -1>>, <<-3, 1>>,
     <<700, -699>>, <<-5, 0>>}

RECURSIVE SumFirst(_, _)
\* moves[1] + ... + moves[j]
SumFirst(moves, j) == IF j = 0 THEN 0 ELSE moves[j] + SumFirst(moves, j - 1)

\* The k-th price of the series that starts at 300.00 and repeats moves.
WalkAt(moves, k) ==
    LET m == Len(moves)
    IN 30000 + ((k - 1) \div m) * SumFirst(moves, m)
             + SumFirst(moves, (k - 1) % m)

\* The price buffers handed to the engine: up to MAXLEN prices.
GivenPrices ==
    {[k \in 1..n |-> PriceWithDigit(Pick(c, k))] :
        c \in DigitCycles, n \in 0..MAXLEN}
    \cup {[k \in 1..n |-> WalkAt(w, k)] : w \in PriceMoves, n \in 0..MAXLEN}

\* The buffers a run of collect_ticks leaves for one symbol: each price
\* with its digit.
InitCalc ==
    /\ ProgramInit(0)
    /\ feed = 1
    /\ clock = 43215
    /\ given_prices \in GivenPrices
    /\ given_ticks = [k \in 1..Len(given_prices) |->
                        last_digit(given_prices[k])]
    /\ returned = <<>>

\* digit_stats and the digit evaluators are called on the digit buffer.
DigitSignals ==
    /\ "stats" \notin DOMAIN returned
    /\ \E s \in {digit_stats_of(given_ticks)} :
         returned' = returned @@ [stats |-> s,
                                  v1 |-> v1_of(s, "market"),
                                  v2 |-> v2_of(s, "market"),
                                  v5 |-> v5_of(s, "market")]
    /\ UNCHANGED <<program_vars, given_prices, given_ticks>>

\* calc_rsi, calc_macd and the momentum evaluator are called on the price
\* buffer.
MomentumSignal ==
    /\ "rsi" \notin DOMAIN returned
    /\ returned' = returned @@ [rsi |-> calc_rsi(given_prices),
                                macd |-> calc_macd(given_prices),
                                v4 |-> v4_of(given_prices, "market")]
    /\ UNCHANGED <<program_vars, given_prices, given_ticks>>

Calc == DigitSignals \/ MomentumSignal

\* The indicator engine alone, on given buffers.
SpecCalc == InitCalc /\ [][Calc]_vars

----------------------------------------------------------------------------
(* Properties. *)

\* C1: after any sequence of tick appends every digit buffer and every price
\* buffer holds at most 120 entries, and it holds the last min(n, 120) of the
\* n values observed for its instrument, in arrival order.
C1_BuffersHoldLastObserved ==
    \A s \in Symbols :
        LET n == Len(seen[s])
            m == IF n < 120 THEN n ELSE 120
        IN /\ Len(tick_data[s]) = m
           /\ Len(price_history[s]) = m
           /\ \A i \in 1..m :
                /\ tick_data[s][i] = seen[s][n - m + i][1]
                /\ price_history[s][i] = seen[s][n - m + i][2]

\* a full buffer has evicted its two oldest entries, which differed from the
\* entries that are now its oldest
C1_Witness ==
    \E s \in Symbols :
        /\ Len(seen[s]) = 122
        /\ Len(price_history[s]) = 120
        /\ seen[s][1] # seen[s][3]
        /\ price_history[s][1] = seen[s][3][2]

\* the step of collect_ticks that appends the tick of the stream's next
\* message
TickStep == ipc = "recv" /\ fed' = fed + 1

\* C8: for every incoming quote the digit appended to the instrument's digit
\* buffer is the final digit of the fraction of the quote as it is written.
C8_DigitIsLastWrittenDigit ==
    [][TickStep =>
        LET msg == FeedMessage(feed, fed + 1)
            buf == tick_data'[msg.symbol]
        IN buf[Len(buf)] = msg.quote.frac[Len(msg.quote.frac)]]_vars

\* the evaluator of the k-th cycle in the order V1, V2, V4, V5, V1, ...
NthBot(k) == <<"V1", "V2", "V4", "V5">>[((k - 1) % 4) + 1]

\* C2: the scheduler selects the active evaluator in the cyclic order V1, V2,
\* V4, V5, V1, ... starting with V1, whatever the outcome of the cycles before.
C2_FixedCyclicOrder ==
    /\ Len(bots) = cycle
    /\ \A k \in 1..Len(bots) : bots[k] = NthBot(k)
    /\ cycle > 0 => current_bot = NthBot(cycle)

\* the fifth cycle begins, after a fourth cycle that ended in EXPIRED
C2_Witness ==
    /\ cycle = 5
    /\ pc = "send_prealert"
    /\ current_bot = "V1"
    /\ signal_json # None
    /\ signal_json.current.status = "EXPIRED"
    /\ signal_json.current.bot_name = "V5"

\* the fields of a published record that describe the signal
SignalFields(r) ==
    <<r.current.bot_name, r.current.market, r.current.signal_type,
      r.current.expires_at>>

\* C3: a cycle that publishes ACTIVE publishes EXPIRED next, 300 seconds
\* later, with the same evaluator, market, trade type and expiry timestamp,
\* and runs no evaluator in between, whatever ticks arrived in those seconds.
C3_ExpiredFollowsActive ==
    /\ \A i \in 1..Len(pub) :
         /\ pub[i].current.status = "ACTIVE" => i = 1
         /\ pub[i].current.status = "EXPIRED" => i = 2
    /\ (Len(pub) >= 1 /\ pub[1].current.status = "ACTIVE") =>
         /\ evals = 1
         /\ pub[1].updated_at = now
         /\ pc \in {"send_expired", "sleep_300b"} => Len(pub) = 2
         /\ Len(pub) >= 2 =>
              /\ Len(pub) = 2
              /\ pub[2].current.status = "EXPIRED"
              /\ pub[2].updated_at = pub[1].updated_at + 300
              /\ pc = "send_expired" => clock = pub[1].updated_at + 300
              /\ SignalFields(pub[2]) = SignalFields(pub[1])
    /\ pc \in {"send_signal", "sleep_300a"} =>
         Len(pub) = 1 /\ pub[1].current.status = "ACTIVE"

\* EXPIRED is published, and evaluating at that moment would have given
\* another result than the one that was published as ACTIVE
C3_Witness ==
    /\ pc = "send_expired"
    /\ Len(pub) = 2
    /\ pub[2].current.status = "EXPIRED"
    /\ evaluate(current_bot) # result

\* C4: in a cycle whose evaluation finds no signal the published state is
\* NO_SIGNAL, neither ACTIVE nor EXPIRED is published, and every notification
\* of the cycle is a plain send: send_with_image is not called and no photo
\* is sent.
C4_NoSignalIsPlainText ==
    (evals = 1 /\ result = None) =>
        /\ \A i \in 1..Len(calls) :
             calls[i].fn = "send" /\ calls[i].via = "send_message"
        /\ \A i \in 1..Len(pub) : pub[i].current.status = "NO_SIGNAL"
        /\ Len(pub) <= 1
        /\ pc \in {"send_nosignal", "sleep_600"} =>
             /\ Len(pub) = 1
             /\ signal_json = pub[1]
             /\ Len(calls) = 2

\* a cycle with no signal has published and notified, with enough digits
\* buffered for the digit statistics to be defined
C4_Witness ==
    /\ pc = "sleep_600"
    /\ evals = 1
    /\ result = None
    /\ signal_json.current.status = "NO_SIGNAL"
    /\ \A s \in Symbols : Len(tick_data[s]) >= 60

\* C5: a failure of a Notifier call or of a State Publisher call never ends
\* the scheduler: it goes on through the phases.
C5_FailuresNeverAbort == pc # "aborted"

\* C6, as claimed: the "next time" published and shown in a cycle is the time
\* the cycle began (the start of PRE_ALERT) plus 10 minutes.
C6_NextTimeFromCycleStart ==
    /\ \A i \in 1..Len(pub) : pub[i].next.time = hm(cycle_start + 600)
    /\ \A i \in 1..Len(calls) :
         calls[i].next_time # None => calls[i].next_time = hm(cycle_start + 600)

\* C6, amended: the "next time" published and shown in a cycle is the time of
\* the cycle's evaluation, which is 120 seconds after the cycle began, plus 10
\* minutes; it is the same in the NO_SIGNAL and in the ACTIVE/EXPIRED branch.
C6_NextTimeFromEvaluation ==
    /\ \A i \in 1..Len(pub) : pub[i].next.time = hm(cycle_start + 120 + 600)
    /\ \A i \in 1..Len(calls) :
         calls[i].next_time # None =>
             calls[i].next_time = hm(cycle_start + 120 + 600)
    /\ evals = 1 => now = cycle_start + 120

\* a cycle that began at 23:50:30 has published ACTIVE and EXPIRED and shown
\* the next time 00:02
C6_Witness ==
    /\ pc = "send_expired"
    /\ Len(pub) = 2
    /\ cycle_start = 85830
    /\ pub[2].next.time = <<0, 2>>
    /\ calls[Len(calls)].next_time = <<0, 2>>

\* C7: cleanup ends with no pending message whether or not delete calls
\* fail, a failing delete never ends the scheduler, and the PRE_ALERT message
\* is sent only once the list of pending messages is empty.
C7_CleanupEmptiesPending ==
    /\ [](pc = "send_prealert" => sent_messages = <<>>)
    /\ [][pc = "delete_message" =>
            \/ pc' = "delete_message" /\ Len(sent_messages') < Len(sent_messages)
            \/ pc' = "send_prealert" /\ sent_messages' = <<>>
            \/ pc' = pc /\ sent_messages' = sent_messages]_vars

\* the PRE_ALERT of a later cycle is being sent after a cleanup in which
\* three delete calls were made and all of them raised
C7_Witness ==
    /\ pc = "send_prealert"
    /\ cycle >= 2
    /\ del_failed = 3
    /\ sent_messages = <<>>

\* the step of main that runs the evaluator of the cycle
EvalStep == pc = "sleep_120" /\ pc' # "sleep_120"

\* the active evaluator fires on market i
Fires(i) == fn(current_bot, MARKETS[i][1], MARKETS[i][2]) # None

\* C9: only the evaluator selected for the cycle is run; the resulting signal
\* is that of the first instrument, in the order R_10, 1HZ10V, R_25, 1HZ25V,
\* on which it fires, and there is no signal when it fires on none.
C9_FirstFiringInstrumentWins ==
    [][EvalStep =>
        /\ MARKETS[1][1] = "R_10" /\ MARKETS[2][1] = "1HZ10V"
        /\ MARKETS[3][1] = "R_25" /\ MARKETS[4][1] = "1HZ25V"
        /\ \A sig \in {[i \in 1..4 |->
                          fn(current_bot, MARKETS[i][1], MARKETS[i][2])]} :
             /\ (\A i \in 1..4 : sig[i] = None) => result' = None
             /\ \A i \in 1..4 :
                  (sig[i] # None /\ \A j \in 1..(i - 1) : sig[j] = None) =>
                      result' = sig[i]]_vars

\* the signal of the third instrument was published although the fourth
\* instrument fires as well
C9_Witness ==
    /\ pc = "send_signal"
    /\ result[2] = MARKETS[3][2]
    /\ Fires(4)
    /\ ~Fires(1)

\* an indicator the active evaluator needs is undefined on market i
Undefined(i) ==
    IF current_bot = "V4"
    THEN Len(price_history[MARKETS[i][1]]) < 35
    ELSE Len(tick_data[MARKETS[i][1]]) < 60

\* C10: digit_stats is undefined below 60 digits, calc_rsi below 15 prices
\* and calc_macd below 35 prices; an evaluator whose indicator is undefined
\* on an instrument gives no signal for it; and a cycle evaluated with the
\* indicators undefined on every instrument enters NO_SIGNAL.
C10_TooFewSamples ==
    /\ [](\A i \in 1..4 :
            LET sym == MARKETS[i][1]
                name == MARKETS[i][2]
            IN /\ Len(tick_data[sym]) < 60 =>
                    /\ digit_stats(sym) = None
                    /\ signal_v1(sym, name) = None
                    /\ signal_v2(sym, name) = None
                    /\ signal_v5(sym, name) = None
               /\ Len(price_history[sym]) < 15 =>
                    calc_rsi(price_history[sym]) = None
               /\ Len(price_history[sym]) < 35 =>
                    /\ calc_macd(price_history[sym]) = None
                    /\ signal_v4(sym, name) = None)
    /\ [][(EvalStep /\ \A i \in 1..4 : Undefined(i)) =>
            /\ result' = None
            /\ pc' = "send_nosignal" \/ (pc' = "aborted" /\ pub' = <<>>)
            /\ pc' = "send_nosignal" =>
                 signal_json'.current.status = "NO_SIGNAL"]_vars

\* a V4 cycle has entered NO_SIGNAL with some, but fewer than 15, prices
\* buffered on every instrument
C10_Witness ==
    /\ pc = "send_nosignal"
    /\ current_bot = "V4"
    /\ \A s \in Symbols : Len(price_history[s]) \in 1..14

\* the engine has returned the digit statistics of the given digits
StatsReturned == "stats" \in DOMAIN returned

\* how many of the given digits are in the set ds
Among(ds) ==
    Cardinality({i \in 1..Len(given_ticks) : given_ticks[i] \in ds})

\* the share is x percent of n: share = 100 * c / n
IsShare(share, c, n) == share.num * n = 100 * c * share.den

\* C11: for a digit buffer of n >= 60 entries the shares are taken against
\* n: under6 = 100 |{d <= 5}| / n, under7 = 100 |{d <= 6}| / n, even and odd
\* likewise; so under6 <= under7 and even + odd = 100; and the digits 0..5
\* ten times each give under6 = under7 = 100 and even = odd = 50.
C11_SharesOfBufferedCount ==
    (StatsReturned /\ Len(given_ticks) >= 60) =>
        LET s == returned.stats
            n == Len(given_ticks)
        IN /\ s # None
           /\ IsShare(s.under6, Among(0..5), n)
           /\ IsShare(s.under7, Among(0..6), n)
           /\ IsShare(s.even, Among({0, 2, 4, 6, 8}), n)
           /\ IsShare(s.odd, Among({1, 3, 5, 7, 9}), n)
           /\ s.under6.num * s.under7.den <= s.under7.num * s.under6.den
           /\ s.even.num * s.odd.den + s.odd.num * s.even.den
                 = 100 * s.even.den * s.odd.den
           /\ (n = 60 /\ \A d \in 0..5 : Among({d}) = 10) =>
                 /\ IsShare(s.under6, 100, 100)
                 /\ IsShare(s.under7, 100, 100)
                 /\ IsShare(s.even, 50, 100)
                 /\ IsShare(s.odd, 50, 100)

\* the statistics of 60 digits, each of 0..5 ten times, were returned
C11_Witness ==
    /\ StatsReturned
    /\ Len(given_ticks) = 60
    /\ \A d \in 0..5 : Among({d}) = 10
    /\ returned.stats # None

\* the engine has returned the oscillators of the given prices
RsiReturned == "rsi" \in DOMAIN returned

\* the given prices are 40 samples, each above the one before
FortyIncreasing ==
    /\ Len(given_prices) = 40
    /\ \A k \in 1..39 : given_prices[k] < given_prices[k + 1]

\* what the last 14 differences of the given prices add up to, in
\* hundredths, when none of them is a loss
LastGain ==
    given_prices[Len(given_prices)] - given_prices[Len(given_prices) - 14]

\* C12, as claimed: for 40 strictly increasing prices calc_rsi returns 100.0,
\* whatever the size of the increments.
C12_IncreasingGives100 ==
    (RsiReturned /\ FortyIncreasing) => returned.rsi = [val |-> 10000]

\* C12, amended: for 40 strictly increasing prices (quotes of two decimals)
\* calc_rsi returns 100.0 when the last 14 increments add up to 28.00 or
\* more, and a value from 99.01 to 99.99 when they add up to less.
C12_IncreasingGivesNear100 ==
    (RsiReturned /\ FortyIncreasing) =>
        /\ returned.rsi # None
        /\ LastGain >= 2800 => returned.rsi.val = 10000
        /\ LastGain < 2800 =>
              returned.rsi.val >= 9901 /\ returned.rsi.val <= 9999

\* 100.0 was returned for 40 increasing prices whose last 14 increments add
\* up to exactly 28.00
C12_Witness ==
    /\ RsiReturned
    /\ FortyIncreasing
    /\ LastGain = 2800
    /\ returned.rsi = [val |-> 10000]

\* the k-th of the last 14 differences of the given prices, newest first
LastDiff(k) ==
    LET n == Len(given_prices) IN given_prices[n - k + 1] - given_prices[n - k]

\* C13: for every price sequence of at least 15 samples calc_rsi returns a
\* defined value in [0, 100], also when no difference of the last 14 is a
\* loss (0.0001 stands in for the average loss) and when none is a gain.
C13_RsiWithinBounds ==
    (RsiReturned /\ Len(given_prices) >= 15) =>
        /\ returned.rsi # None
        /\ returned.rsi.val >= 0
        /\ returned.rsi.val <= 10000

\* a value was returned for a constant price: the average gain is zero and
\* so is the average loss
C13_Witness ==
    /\ RsiReturned
    /\ Len(given_prices) >= 15
    /\ \A k \in 1..14 : LastDiff(k) = 0
    /\ returned.rsi # None
    /\ returned.rsi.val = 0

\* digit e has the top count among the given digits, and is the smallest
\* digit that has it
SmallestTopDigit(e) ==
    \A d \in 0..9 :
        /\ Among({d}) <= Among({e})
        /\ Among({d}) = Among({e}) => e <= d

\* what C14 says of the signal sig of a digit-bias evaluator whose share
\* counts the digits of ds
DigitBias(sig, ds) ==
    LET n == Len(given_ticks)
        c == Among(ds)
    IN /\ sig # None <=> (n >= 60 /\ 100 * c >= 60 * n)
       /\ sig # None =>
            /\ IsShare(sig[1].prob, c, n)
            /\ SmallestTopDigit(sig[1].entry)

\* C14: V1 (under6) and V2 (under7) fire exactly when the digit buffer holds
\* at least 60 samples and the share is at least 60%; the probability
\* reported is that share and the entry digit is a digit of maximal count,
\* the smallest one when several digits have the top count.
C14_DigitBiasSignals ==
    StatsReturned =>
        /\ DigitBias(returned.v1, 0..5)
        /\ DigitBias(returned.v2, 0..6)

\* V1 fired at a share of exactly 60% on a buffer whose top count is shared
\* by 0 and 9, the 9 having come first, and reported the entry digit 0
C14_Witness ==
    /\ StatsReturned
    /\ returned.v1 # None
    /\ returned.v1[1].entry = 0
    /\ IsShare(returned.v1[1].prob, 60, 100)
    /\ Among({0}) = Among({9})
    /\ given_ticks[1] = 9

\* buf with x appended is new: what buf held is kept in order, but for the
\* oldest entry of a full buffer
AppendedTo(buf, x, new) ==
    /\ new # <<>>
    /\ new[Len(new)] = x
    /\ SubSeq(new, 1, Len(new) - 1) = IF Len(buf) = 120 THEN Tail(buf) ELSE buf

\* C15: a message without a tick field is ignored without error (the
\* ingestor goes on receiving) and changes no buffer; losing the connection,
\* waiting and connecting again change no buffer; the buffers change only
\* when a tick is received, by the digit and the price of that tick being
\* appended to the buffers of its instrument.
C15_OnlyTicksChangeBuffers ==
    [][/\ heard' # heard =>
            /\ ipc = "recv" /\ ipc' = "recv"
            /\ UNCHANGED <<tick_data, price_history>>
       /\ (ipc # "recv" \/ ipc' # "recv") =>
            UNCHANGED <<tick_data, price_history>>
       /\ <<tick_data, price_history>>' # <<tick_data, price_history>> =>
            /\ TickStep
            /\ LET msg == FeedMessage(feed, fed + 1)
                   s == msg.symbol
               IN /\ \A o \in Symbols \ {s} :
                        /\ tick_data'[o] = tick_data[o]
                        /\ price_history'[o] = price_history[o]
                  /\ AppendedTo(tick_data[s], last_digit(to_float(msg.quote)),
                                tick_data'[s])
                  /\ AppendedTo(price_history[s], to_float(msg.quote),
                                price_history'[s])]_vars

\* the ingestor is about to connect again, after messages without a tick
\* field were ignored, with full buffers that still hold what was appended
C15_Witness ==
    /\ ipc = "connect"
    /\ heard >= 2
    /\ \A s \in Symbols :
         /\ Len(tick_data[s]) = 120
         /\ Len(seen[s]) > 120
         /\ price_history[s][120] = seen[s][Len(seen[s])][2]

\* C18: at every suspension point of the ingestor the digit buffer and the
\* price buffer of each instrument have the same length, and their i-th
\* entries are the digit and the price of one tick; a tick whose digit
\* extraction or symbol lookup fails is appended to neither.
C18_BuffersInStep ==
    \A s \in Symbols :
        /\ Len(tick_data[s]) = Len(price_history[s])
        /\ Len(tick_data[s]) <= Len(seen[s])
        /\ \A i \in 1..Len(tick_data[s]) :
             /\ tick_data[s][i] = last_digit(price_history[s][i])
             /\ <<tick_data[s][i], price_history[s][i]>>
                  = seen[s][Len(seen[s]) - Len(tick_data[s]) + i]

\* the ingestor waits to connect again after an exception, and the buffers
\* of the symbol that failing ticks name are full and have evicted entries
C18_Witness ==
    /\ ipc = "backoff"
    /\ Len(tick_data["R_10"]) = 120
    /\ Len(price_history["R_10"]) = 120
    /\ Len(seen["R_10"]) > 120

\* the step of main that selects the evaluator of a cycle after the first
NextCycleStep == cycle >= 1 /\ cycle' = cycle + 1

\* C17: both branches of a cycle wait the same time: the next cycle's
\* PRE_ALERT begins 600 seconds of waiting after the evaluation (600 in
\* NO_SIGNAL, 300 + 300 in ACTIVE/EXPIRED), so a cycle spans 120 + 600 = 720
\* seconds of waits and the next evaluation is 720 seconds after this one.
C17_CycleSpans720 ==
    /\ [](/\ pc \in {"send_nosignal", "sleep_600"} => clock = now
          /\ pc \in {"send_signal", "sleep_300a"} => clock = now
          /\ pc \in {"send_expired", "sleep_300b"} => clock = now + 300
          /\ evals = 1 => now = cycle_start + 120)
    /\ [][/\ NextCycleStep =>
              /\ pc' = "send_prealert"
              /\ clock' = now + 600
              /\ cycle_start' = cycle_start + 720
          /\ (EvalStep /\ cycle >= 2) => now' = now + 720]_vars

\* the third cycle begins 1440 seconds after the process started, after a
\* first cycle that ended in NO_SIGNAL (two messages) and a second that
\* ended in EXPIRED (three messages)
C17_Witness ==
    /\ pc = "send_prealert"
    /\ cycle = 3
    /\ msg_seq = 6
    /\ signal_json.current.status = "EXPIRED"
    /\ cycle_start - 1440 \in StartTimes

\* C19: the "next" evaluator of every record a cycle publishes (NO_SIGNAL,
\* ACTIVE or EXPIRED) is the evaluator selected in the cycle that follows,
\* and it differs from the evaluator of the cycle that publishes it.
C19_NextBotIsSelectedNext ==
    /\ [](\A i \in 1..Len(pub) :
            /\ pub[i].current.status \in {"NO_SIGNAL", "ACTIVE", "EXPIRED"}
            /\ pub[i].current.bot_name = current_bot
            /\ pub[i].next.bot_name = next_bot
            /\ pub[i].next.bot_name # pub[i].current.bot_name)
    /\ [][NextCycleStep =>
            /\ current_bot' = next_bot
            /\ signal_json # None
            /\ current_bot' = signal_json.next.bot_name
            /\ current_bot' # signal_json.current.bot_name]_vars

\* the fifth cycle has selected V1, which the EXPIRED record of the fourth
\* cycle (evaluator V5) names as next
C19_Witness ==
    /\ pc = "send_prealert"
    /\ cycle = 5
    /\ current_bot = "V1"
    /\ signal_json.current.status = "EXPIRED"
    /\ signal_json.current.bot_name = "V5"
    /\ signal_json.next.bot_name = "V1"

RECURSIVE MinOf(_, _)
\* the smallest of the first k entries of w
MinOf(w, k) ==
    IF k = 1 THEN w[1]
    ELSE LET m == MinOf(w, k - 1) IN IF w[k] < m THEN w[k] ELSE m

RECURSIVE MaxOf(_, _)
\* the largest of the first k entries of w
MaxOf(w, k) ==
    IF k = 1 THEN w[1]
    ELSE LET m == MaxOf(w, k - 1) IN IF w[k] > m THEN w[k] ELSE m

\* at least 35 prices are buffered, the last 26 are positive and their
\* spread is smaller than their minimum
NarrowPositive(list) ==
    /\ Len(list) >= 35
    /\ \E w \in {LastN(list, 26)} :
         \E lo \in {MinOf(w, 26)} :
            lo > 0 /\ MaxOf(w, 26) - lo < lo

\* the last 26 prices all are p
Constant(list, p) ==
    \A k \in (Len(list) - 25)..Len(list) : list[k] = p

\* C20: when the last 26 prices of an instrument are positive and their
\* spread is smaller than their minimum, the MACD histogram calc_macd
\* returns is negative (it is -p for a constant price p) and V4 does not
\* fire for the instrument; a V4 cycle evaluated with this true of every
\* instrument ends in NO_SIGNAL.  Stated of every evaluation of V4.
C20_HistogramNegative ==
    [][(EvalStep /\ current_bot = "V4") =>
        /\ \A i \in 1..4 :
             \E list \in {price_history[MARKETS[i][1]]} :
                NarrowPositive(list) =>
                   \E macd \in {calc_macd(list)} :
                      /\ macd # None
                      /\ macd.val < 0
                      /\ Constant(list, list[1]) => macd.val = -1000 * list[1]
                      /\ v4_of(list, MARKETS[i][2]) = None
        /\ (\A i \in 1..4 : NarrowPositive(price_history[MARKETS[i][1]])) =>
             /\ result' = None
             /\ pc' = "send_nosignal" \/ (pc' = "aborted" /\ pub' = <<>>)
             /\ pc' = "send_nosignal" =>
                  signal_json'.current.status = "NO_SIGNAL"]_vars

\* a V4 cycle has entered NO_SIGNAL with at least 35 prices buffered for
\* every instrument, the price of R_10 being constant at 50.07 and its
\* histogram -50.07
C20_Witness ==
    /\ pc = "send_nosignal"
    /\ current_bot = "V4"
    /\ \A s \in Symbols : NarrowPositive(price_history[s])
    /\ Constant(price_history["R_10"], 5007)
    /\ calc_macd(price_history["R_10"]) = [val |-> -5007000]

\* C16: with the Notifier and State Publisher calls returning normally and
\* main resumed fairly, the scheduler keeps beginning PRE_ALERT phases,
\* whatever the ingestor does meanwhile: every cycle up to the bound is
\* begun, and each of V1, V2, V4 and V5 is selected.
C16_SchedulerGoesOn ==
    <>(/\ cycle = MaxCycles
       /\ pc = "send_prealert"
       /\ \A b \in {"V1", "V2", "V4", "V5"} :
            \E k \in 1..Len(bots) : bots[k] = b)

\* the last cycle within the bound has begun while the ingestor, whose
\* stream has ended, waits to connect again
C16_Witness ==
    /\ cycle = MaxCycles
    /\ pc = "send_prealert"
    /\ ipc = "backoff"
    /\ fed = feed_len

====
